---- MODULE Spec2Model ----
(***************************************************************************)
(* Experiment process lifecycle of app.py: the state store                 *)
(* (_experiments_state, _experiments_lock, .experiments_state.json), the   *)
(* Run Experiment button handler, the worker run_experiment_async, the     *)
(* engine process it spawns, stop_experiment and the results directory.    *)
(*                                                                         *)
(* Python values are tagged pairs <<type, payload>> so that None, ints,    *)
(* floats, strings, lists, dicts and Path objects stay distinct; a record  *)
(* of the store is a function from its keys to such values.                *)
(***************************************************************************)
EXTENDS Integers, Sequences, FiniteSets, TLC

\* ------------------------------------------------------------------ bounds
\* run requests, seconds of the clock, files an engine creates, and the
\* events of the environment in one behaviour (a click, a clock second, a
\* file created by an engine, a failing system call)
MaxRuns == 2
MaxTime == 1
MaxEvents == 3

\* ------------------------------------------------------- the run's inputs
Templates == {"a.xlsx", "b.xlsx"}
MaxFiles == 2
Workers == 1..MaxRuns
\* A file name of RESULTS_DIR is <<pid of the engine that creates it (0: there
\* before any run), number>>; odd numbers are .csv files, even ones .json.
OldNames == {<<0, 1>>}
EngineNames(k) == {k} \X (1..MaxFiles)
Times == 0..MaxTime
ExperimentIds == Templates \X Times

\* ----------------------------------------------------------- Python values
None == <<"none", 0>>
PStr(s) == <<"str", s>>
PInt(n) == <<"int", n>>
PFloat(x) == <<"float", x>>
PList(q) == <<"list", q>>
PDict(d) == <<"dict", d>>
PPath(p) == <<"path", p>>

\* str(x) of a value that is not a JSON type (json.dump's default=str)
PyStr(v) == v[2]

\* dict.get(key): None when the key is absent
Get(rec, key) == IF key \in DOMAIN rec THEN rec[key] ELSE None

\* Python truthiness of a value (None, 0, '' and empty containers are false)
Truthy(v) ==
    CASE v[1] = "none" -> FALSE
      [] v[1] \in {"int", "float"} -> v[2] # 0
      [] v[1] = "str" -> v[2] # ""
      [] v[1] = "list" -> v[2] # <<>>
      [] OTHER -> TRUE

\* ------------------------------------------------------------------- JSON
\* json.dump(state, f, indent=2, default=str): None -> null, numbers keep
\* their int/float text, str -> string, list -> array, dict -> object, and
\* any other object goes through str().
RECURSIVE JsonValue(_)
JsonValue(v) ==
    CASE v[1] = "none" -> <<"null", 0>>
      [] v[1] \in {"int", "float"} -> <<"number", v>>
      [] v[1] = "str" -> <<"string", v[2]>>
      [] v[1] = "list" -> <<"array", [i \in DOMAIN v[2] |-> JsonValue(v[2][i])]>>
      [] v[1] = "dict" -> <<"object", [k \in DOMAIN v[2] |-> JsonValue(v[2][k])]>>
      [] OTHER -> <<"string", PyStr(v)>>

\* json.load: null -> None, number -> int or float by its text, string ->
\* str, array -> list, object -> dict.
RECURSIVE PyValue(_)
PyValue(j) ==
    CASE j[1] = "null" -> None
      [] j[1] = "number" -> j[2]
      [] j[1] = "string" -> PStr(j[2])
      [] j[1] = "array" -> PList([i \in DOMAIN j[2] |-> PyValue(j[2][i])])
      [] OTHER -> PDict([k \in DOMAIN j[2] |-> PyValue(j[2][k])])

JsonDump(state) ==
    [id \in DOMAIN state |-> [k \in DOMAIN state[id] |-> JsonValue(state[id][k])]]

JsonLoad(obj) ==
    [id \in DOMAIN obj |-> [k \in DOMAIN obj[id] |-> PyValue(obj[id][k])]]

\* The state file: missing, holding a JSON document, or unreadable.
FileMissing == <<"missing", <<>>>>
FileCorrupt == <<"corrupt", <<>>>>
FileJson(obj) == <<"json", obj>>

EmptyState == <<>>

\* load_experiments_state started from in-memory mapping `mem`
load_experiments_state(f, mem) ==
    CASE f[1] = "missing" -> mem
      [] f[1] = "corrupt" -> EmptyState
      [] OTHER -> JsonLoad(f[2])

\* save_experiments_state: the whole mapping replaces the file's content
save_experiments_state(state) == FileJson(JsonDump(state))

\* _experiments_state[experiment_id] = data
StoreAssign(state, id, data) == (id :> data) @@ state

\* ---------------------------------------------------------------- records
Terminal == {"stopped", "completed", "failed", "error"}
Status(rec) == Get(rec, "status")[2]

\* Path(template_path).stem
Stem(t) == IF t = "a.xlsx" THEN "a" ELSE "b"

\* f"{name}_{datetime.now().strftime('%Y%m%d_%H%M%S')}": one value per second
StampedName(name, t) == <<name, t>>

\* f.suffix in ['.csv', '.json'], glob("*.csv"), glob("*.json")
Suffix(f) == IF f[2] % 2 = 1 THEN ".csv" ELSE ".json"
Recognized(f) == Suffix(f) \in {".csv", ".json"}

\* time.time() and the durations computed from it: one value stands for every
\* reading (no record field that is compared here holds a duration)
TimeReading == PFloat(0)

\* the handler's record (status 'starting')
StartingRecord(tmpl) ==
    [status |-> PStr("starting"), start_time |-> TimeReading, elapsed |-> PInt(0),
     template |-> PStr(tmpl)]

\* the first record with the folder kept as a Path object (no str())
SpawnedRecordWithPath(pid, tmpl, folder) ==
    [status |-> PStr("running"), start_time |-> TimeReading, elapsed |-> PInt(0),
     process_pid |-> PInt(pid), template |-> PStr(tmpl),
     result_folder |-> PPath(folder), process_info |-> None,
     result_files_count |-> PInt(0), stdout |-> PStr(""), stderr |-> PStr(""),
     return_code |-> None]

\* the worker's first record after the spawn
SpawnedRecord(pid, tmpl, folder) ==
    [status |-> PStr("running"), start_time |-> TimeReading, elapsed |-> PInt(0),
     process_pid |-> PInt(pid), template |-> PStr(tmpl),
     result_folder |-> PStr(PyStr(PPath(folder))), process_info |-> None,
     result_files_count |-> PInt(0), stdout |-> PStr(""), stderr |-> PStr(""),
     return_code |-> None]

\* a tick record that drops the pid
TickRecordWithoutPid(pid, info, count) ==
    [status |-> PStr("running"), start_time |-> TimeReading,
     elapsed |-> TimeReading, process_pid |-> None,
     process_info |-> info, result_files_count |-> PInt(count),
     stdout |-> PStr(""), stderr |-> PStr(""), return_code |-> None]

\* the worker's record of one poll tick
TickRecord(pid, info, count) ==
    [status |-> PStr("running"), start_time |-> TimeReading,
     elapsed |-> TimeReading, process_pid |-> PInt(pid),
     process_info |-> info, result_files_count |-> PInt(count),
     stdout |-> PStr(""), stderr |-> PStr(""), return_code |-> None]

\* the worker's final record
FinalRecord(final_status, folder, count, moved, rc) ==
    [status |-> PStr(final_status), start_time |-> TimeReading,
     elapsed |-> TimeReading, process_info |-> None, process_pid |-> None,
     result_folder |-> PStr(PyStr(PPath(folder))),
     result_files_count |-> PInt(count), files_moved |-> PList(moved),
     stdout |-> PStr(""), stderr |-> PStr(""), return_code |-> PInt(rc)]

\* an except branch that drops the exception's message
ErrorRecordWithoutMessage(msg, folder) ==
    [status |-> PStr("error"), error |-> None, start_time |-> TimeReading,
     elapsed |-> TimeReading, process_pid |-> None,
     result_folder |-> PStr(PyStr(PPath(folder)))]

\* the worker's record in the except branch
ErrorRecord(msg, folder) ==
    [status |-> PStr("error"), error |-> PStr(msg), start_time |-> TimeReading,
     elapsed |-> TimeReading, process_pid |-> None,
     result_folder |-> PStr(PyStr(PPath(folder)))]

\* {**exp_data, 'status': ..., 'elapsed': ..., 'error': ...}
Overlay(exp_data, upd) ==
    [k \in DOMAIN exp_data \cup DOMAIN upd |->
        IF k \in DOMAIN upd THEN upd[k] ELSE exp_data[k]]

\* stop_experiment's record when no process was found
StopNoProcessRecord(exp_data) ==
    Overlay(exp_data, [status |-> PStr("stopped"), elapsed |-> TimeReading,
                       error |-> PStr("No process found to stop")])

\* stop_experiment's record after the signals
StopRecord(exp_data, errors) ==
    Overlay(exp_data, [status |-> PStr("stopped"), elapsed |-> TimeReading,
                       process_pid |-> None,
                       error |-> IF errors # <<>> THEN PStr(errors) ELSE None])

\* get_process_info(pid): a snapshot of a live process, None otherwise
get_process_info(st) ==
    IF st = "alive" THEN PDict([status |-> PStr("running")]) ELSE None

\* files_moved in the order of the two glob loops (*.csv, then *.json)
RECURSIVE NamesInOrder(_)
NamesInOrder(S) ==
    IF S = {} THEN <<>>
    ELSE LET f == CHOOSE x \in S : \A y \in S : x[1] < y[1] \/ (x[1] = y[1] /\ x[2] <= y[2])
         IN <<PStr(f)>> \o NamesInOrder(S \ {f})

MovedList(S) ==
    NamesInOrder({f \in S : Suffix(f) = ".csv"}) \o NamesInOrder({f \in S : Suffix(f) = ".json"})

\* ------------------------------------------------------------------ state
VARIABLES
    now,        \* the clock, in seconds (time.time(), datetime.now())
    store,      \* _experiments_state
    file,       \* .experiments_state.json
    lock,       \* holder of _experiments_lock ("none" when free)
    ui,         \* the script thread: button handlers and stop_experiment
    w,          \* the worker threads running run_experiment_async
    proc,       \* the engine processes, by pid (worker k spawns pid k)
    root,       \* names of the files in RESULTS_DIR itself
    folders,    \* the run folders under RESULTS_DIR and the files in each
    stopReq,    \* identifiers on which stop_experiment found status 'running'
    signals,    \* the signals sent so far: <<sender, pid, signal>>
    writeFailed,\* whether a write of the state file has failed so far
    failedMoves,\* the files whose move into a run folder has failed
    events,     \* the number of events of the environment so far
    cli         \* one execution of run_experiment.py (NoCli in the app)

vars == <<now, store, file, lock, ui, w, proc, root, folders, stopReq, signals,
          writeFailed, failedMoves, events, cli>>

\* n more events of the environment
Event(n) == events + n <= MaxEvents /\ events' = events + n

Unbound == <<"unbound", 0>>
NoData == <<>>
NoId == <<"", 0>>

\* an identifier no run has: a template that is not in TEMPLATES_DIR
UnknownId == <<"none.xlsx", 0>>

IdleUi == [pc |-> "idle", id |-> NoId, data |-> NoData, next |-> "idle",
           exp_data |-> NoData, found |-> {}, delivered |-> {}, success |-> FALSE,
           ret |-> "none"]

FreshWorker ==
    [pc |-> "unstarted", template |-> "", eid |-> NoId,
     folder |-> NoId, before |-> {}, exp_state |-> Unbound, listed |-> {},
     data |-> NoData, next |-> "unstarted", relocations |-> 0]

NoProcess == [st |-> "none", rc |-> 0, sig |-> "none", tmpl |-> ""]

\* run_experiment.py is not running
NoCli == [pc |-> "off"]

AppInit ==
    /\ now = 0
    /\ store = load_experiments_state(FileMissing, EmptyState)
    /\ file = FileMissing
    /\ lock = "none"
    /\ ui = IdleUi
    /\ w = [k \in Workers |-> FreshWorker]
    /\ proc = [k \in Workers |-> NoProcess]
    /\ root = OldNames
    /\ folders = <<>>
    /\ stopReq = {}
    /\ signals = {}
    /\ writeFailed = FALSE
    /\ failedMoves = {}
    /\ events = 0

Init == AppInit /\ cli = NoCli

\* ------------------------------------------------------------------ clock
Tick ==
    /\ now < MaxTime
    /\ now' = now + 1
    /\ Event(1)
    /\ UNCHANGED <<cli, store, file, lock, ui, w, proc, root, folders, stopReq, signals,
                   writeFailed, failedMoves>>

\* ------------------------------------------------- update_experiment_state
\* The call of a thread that has reached it with (id, data): the lock is
\* taken, the mapping changed, the file rewritten (a failure is swallowed),
\* the lock released.  threading.Lock is not reentrant: the call waits while
\* any thread, the caller included, holds the lock.
FileAfterWrite(f, state, outcome) ==
    CASE outcome = "ok" -> save_experiments_state(state)
      [] outcome = "open_failed" -> f
      [] OTHER -> FileCorrupt

WriteOutcomes == {"ok", "open_failed", "write_failed"}

LockFreeOrHeld == TRUE

LockFree == lock = "none"

WriteRecordUnlessWriteFails(id, data, outcome) ==
    /\ store' = IF outcome = "ok" THEN StoreAssign(store, id, data) ELSE store
    /\ file' = FileAfterWrite(file, store', outcome)
    /\ writeFailed' = (writeFailed \/ outcome # "ok")
    /\ Event(IF outcome = "ok" THEN 0 ELSE 1)

\* the body of update_experiment_state, under the lock
WriteRecord(id, data, outcome) ==
    /\ store' = StoreAssign(store, id, data)
    /\ file' = FileAfterWrite(file, store', outcome)
    /\ writeFailed' = (writeFailed \/ outcome # "ok")
    /\ Event(IF outcome = "ok" THEN 0 ELSE 1)

UpdateByWorker(k, outcome) ==
    /\ w[k].pc = "update"
    /\ LockFree
    /\ WriteRecord(w[k].eid, w[k].data, outcome)
    /\ w' = [w EXCEPT ![k].pc = w[k].next, ![k].data = NoData]
    /\ UNCHANGED <<cli, now, lock, ui, proc, root, folders, stopReq, signals, failedMoves>>

\* In the handler the call ends the handler; in stop_experiment the return
\* that follows it leaves the with block, which releases the lock.
UpdateByUi(outcome) ==
    /\ ui.pc = "update"
    /\ LockFree
    /\ WriteRecord(ui.id, ui.data, outcome)
    /\ ui' = [IdleUi EXCEPT !.ret = CASE ui.next = "return_true" -> "True"
                                      [] ui.next = "return_false" -> "False"
                                      [] OTHER -> "none"]
    /\ lock' = IF ui.next = "idle" THEN lock ELSE "none"
    /\ UNCHANGED <<cli, now, w, proc, root, folders, stopReq, signals, failedMoves>>

update_experiment_state ==
    \E outcome \in WriteOutcomes :
        \/ UpdateByUi(outcome)
        \/ \E k \in Workers : UpdateByWorker(k, outcome)

\* ------------------------------------------- Run Experiment button handler
\* experiment_id from the template name and the second; the worker thread is
\* started first, the 'starting' record is written after.
NextWorker == CHOOSE k \in Workers : w[k].pc = "unstarted" /\
                  \A j \in Workers : w[j].pc = "unstarted" => k <= j

RunButton(tmpl) ==
    /\ ui.pc = "idle"
    /\ \E k \in Workers : w[k].pc = "unstarted"
    /\ LET k == NextWorker
           experiment_id == StampedName(tmpl, now)
       IN /\ w' = [w EXCEPT ![k] = [FreshWorker EXCEPT !.pc = "setup",
                                       !.template = tmpl, !.eid = experiment_id]]
          /\ ui' = [IdleUi EXCEPT !.pc = "update", !.id = experiment_id,
                       !.data = StartingRecord(tmpl), !.next = "idle"]
    /\ Event(1)
    /\ UNCHANGED <<cli, now, store, file, lock, proc, root, folders, stopReq, signals,
                   writeFailed, failedMoves>>

\* ------------------------------------------------------ run_experiment_async
\* start_time, the run folder (mkdir) and the names already in RESULTS_DIR,
\* which are outside the try (a failing mkdir ends the thread); then
\* subprocess.Popen and the write of the mode to the engine's stdin.
SetupOutcomes == {"ok", "mkdir_failed", "popen_failed", "stdin_failed"}

existing_files_beforeEmpty == {}

\* the names of the .csv and .json files in RESULTS_DIR when the worker starts
existing_files_before == {f \in root : Recognized(f)}

W_Setup(k) ==
    /\ w[k].pc = "setup"
    /\ \E outcome \in SetupOutcomes :
        /\ Event(IF outcome = "ok" THEN 0 ELSE 1)
        /\ LET experiment_folder == StampedName(Stem(w[k].template), now)
               started == [w[k] EXCEPT !.folder = experiment_folder,
                                       !.before = existing_files_before]
           IN /\ folders' = IF outcome = "mkdir_failed" \/ experiment_folder \in DOMAIN folders
                            THEN folders
                            ELSE (experiment_folder :> {}) @@ folders
              /\ proc' = CASE outcome = "ok" ->
                                [proc EXCEPT ![k] = [st |-> "alive", rc |-> 0,
                                                     sig |-> "none", tmpl |-> w[k].template]]
                           [] outcome = "stdin_failed" ->
                                [proc EXCEPT ![k] = [st |-> "zombie", rc |-> 1,
                                                     sig |-> "none", tmpl |-> w[k].template]]
                           [] OTHER -> proc
              /\ w' = [w EXCEPT ![k] =
                    CASE outcome = "ok" ->
                           [started EXCEPT !.pc = "update", !.next = "poll",
                               !.data = SpawnedRecord(k, w[k].template, experiment_folder)]
                      [] outcome = "mkdir_failed" ->
                           [w[k] EXCEPT !.pc = "crashed"]
                      [] outcome = "popen_failed" ->
                           [started EXCEPT !.pc = "update", !.next = "done", !.before = {},
                               !.data = ErrorRecord("spawn failed", experiment_folder)]
                      [] OTHER ->
                           [started EXCEPT !.pc = "update", !.next = "done", !.before = {},
                               !.data = ErrorRecord("broken pipe", experiment_folder)]]
    /\ UNCHANGED <<cli, now, store, file, lock, ui, root, stopReq, signals, writeFailed, failedMoves>>

\* final_status: exp_state is the value read in the last pass of the loop
FinalStatus(exp_state, return_code) ==
    IF exp_state[1] = "dict" /\ exp_state[2].status = PStr("stopped") THEN "stopped"
    ELSE IF return_code = 0 THEN "completed" ELSE "failed"

\* After the loop: the new files of RESULTS_DIR are moved into the run folder
\* (a failing move is skipped), the status is computed and the final record
\* is built.  exp_state is unbound when the loop body never ran.
\* every recognized file of RESULTS_DIR, the earlier ones included
NewFilesIgnoringBefore(before) == {f \in root : Recognized(f)}

NewFiles(before) == {f \in root : Recognized(f) /\ f \notin before}

Finalize(k, return_code, exp_state, procAfter, signalsAfter) ==
    LET new == NewFiles(w[k].before)
    IN \E failed \in SUBSET new :
        /\ Event(Cardinality(failed))
        /\ failedMoves' = failedMoves \cup failed
        /\ LET moved == new \ failed
               inFolder == folders[w[k].folder] \cup moved
           IN /\ root' = root \ moved
              /\ folders' = [folders EXCEPT ![w[k].folder] = inFolder]
              /\ proc' = procAfter
              /\ signals' = signalsAfter
              /\ w' = [w EXCEPT
                    ![k].pc = "update", ![k].next = "done", ![k].exp_state = exp_state,
                    ![k].before = {}, ![k].relocations = @ + 1,
                    ![k].data =
                       IF exp_state = Unbound
                       THEN ErrorRecord("exp_state unbound", w[k].folder)
                       ELSE FinalRecord(FinalStatus(exp_state, return_code),
                                        w[k].folder,
                                        Cardinality({f \in inFolder : Recognized(f)}),
                                        MovedList(moved), return_code)]

\* get_experiment_state
get_experiment_state(id) ==
    IF id \in DOMAIN store THEN PDict([status |-> Get(store[id], "status")]) ELSE None

\* One test of the loop: process.poll(); when the process has exited the loop
\* ends.  Otherwise the head of the body: the store is read (under the lock);
\* on 'stopped' the process is terminated and the loop left, otherwise the
\* tick goes on (get_result_files lists the files).
W_Poll(k) ==
    /\ w[k].pc = "poll"
    /\ IF proc[k].st # "alive"
       THEN Finalize(k, proc[k].rc, w[k].exp_state, [proc EXCEPT ![k].st = "reaped"],
                     signals)
       ELSE /\ LockFree
            /\ LET exp_state == get_experiment_state(w[k].eid)
               IN IF exp_state[1] = "dict" /\ exp_state[2].status = PStr("stopped")
                  THEN Finalize(k, -15, exp_state,
                                [proc EXCEPT ![k].st = "reaped", ![k].rc = -15],
                                signals \cup {<<"worker", k, "terminate">>})
                  ELSE /\ w' = [w EXCEPT ![k].pc = "tick", ![k].exp_state = exp_state,
                                   ![k].listed = {f \in root : Recognized(f)}]
                       /\ UNCHANGED <<proc, root, folders, signals, events, failedMoves>>
    /\ UNCHANGED <<cli, now, store, file, lock, ui, stopReq, writeFailed>>

\* number of .csv and .json files in the subfolders of RESULTS_DIR
RECURSIVE CountIn(_, _)
CountIn(fs, dirs) ==
    IF dirs = {} THEN 0
    ELSE LET d == CHOOSE x \in dirs : TRUE
         IN Cardinality({f \in fs[d] : Recognized(f)}) + CountIn(fs, dirs \ {d})

\* The rest of the loop body: elapsed, get_process_info, get_result_files
\* (its stat of a listed file that is gone raises, and the except branch is
\* taken) and the tick's record, up to the call of update_experiment_state.
\* Nothing outside the thread changes before that call, so the step is taken
\* with the call: it waits for the lock.
W_Tick(k) ==
    /\ w[k].pc = "tick"
    /\ LockFree
    /\ \E outcome \in WriteOutcomes :
        WriteRecord(w[k].eid,
                    IF w[k].listed \subseteq root
                    THEN TickRecord(k, get_process_info(proc[k].st),
                                    Cardinality(w[k].listed)
                                        + CountIn(folders, DOMAIN folders))
                    ELSE ErrorRecord("file not found", w[k].folder),
                    outcome)
    /\ w' = [w EXCEPT ![k].pc = IF w[k].listed \subseteq root THEN "poll" ELSE "done",
                      ![k].listed = {},
                      ![k].before = IF w[k].listed \subseteq root THEN @ ELSE {}]
    /\ UNCHANGED <<cli, now, lock, ui, proc, root, folders, stopReq, signals, failedMoves>>

\* ----------------------------------------------------------------- engine
\* The engine is opaque: it may create result files in RESULTS_DIR, one or
\* several between two observations of the directory, and exit with any code;
\* a terminate signal it has received ends it with -15.
EngineWrite(k) ==
    /\ proc[k].st = "alive"
    /\ \E S \in SUBSET EngineNames(k) :
        /\ S # {}
        /\ S \cap root = {}
        /\ \A d \in DOMAIN folders : S \cap folders[d] = {}
        /\ root' = root \cup S
    /\ Event(1)
    /\ UNCHANGED <<cli, now, store, file, lock, ui, w, proc, folders, stopReq, signals,
                   writeFailed, failedMoves>>

ExitCodes == {0, 1}

EngineExit(k) ==
    /\ proc[k].st = "alive"
    /\ \E rc \in (IF proc[k].sig = "terminate" THEN {-15} ELSE ExitCodes) :
        /\ proc' = [proc EXCEPT ![k].st = "zombie", ![k].rc = rc]
        /\ Event(IF rc = 1 THEN 1 ELSE 0)
    /\ UNCHANGED <<cli, now, store, file, lock, ui, w, root, folders, stopReq, signals,
                   writeFailed, failedMoves>>

\* ---------------------------------------------------------- stop_experiment
\* psutil.Process(pid) finds a process that runs or has exited unreaped
PidExists(pid) == pid \in Workers /\ proc[pid].st \in {"alive", "zombie"}

\* the processes to signal: the recorded pid, else the engine processes whose
\* command line holds the record's template, else every engine process
LocateByPid(exp_data) ==
    LET process_pid == Get(exp_data, "process_pid")
    IN IF Truthy(process_pid) /\ PidExists(process_pid[2]) THEN {process_pid[2]} ELSE {}

LocateByTemplate(exp_data) ==
    LET template_path == IF "template" \in DOMAIN exp_data THEN exp_data["template"]
                         ELSE PStr("")
    IN {p \in Workers : proc[p].st = "alive" /\ Truthy(template_path)
                        /\ proc[p].tmpl = template_path[2]}

LocateAnyEngine == {p \in Workers : proc[p].st = "alive"}

processes_to_kill(exp_data) ==
    IF LocateByPid(exp_data) # {} THEN LocateByPid(exp_data)
    ELSE IF LocateByTemplate(exp_data) # {} THEN LocateByTemplate(exp_data)
    ELSE LocateAnyEngine

\* a guard that tests the record only, not its status
StopAppliesAnyStatus(id) == id \in DOMAIN store

\* the guard of stop_experiment: a record exists and its status is 'running'
StopApplies(id) == id \in DOMAIN store /\ Get(store[id], "status") = PStr("running")

\* The call takes the lock.  The early returns release it; else the processes
\* are located and each is sent terminate, or, when none is found, the
\* 'stopped' record is handed to update_experiment_state, the lock still held.
\* str(e) of the NoSuchProcess / AccessDenied raised by proc.terminate(), one
\* per process whose signal was not delivered, in the order of the list.
RECURSIVE TerminateErrors(_)
TerminateErrors(failed) ==
    IF failed = {} THEN <<>>
    ELSE LET p == CHOOSE x \in failed : \A y \in failed : x <= y
         IN <<p>> \o TerminateErrors(failed \ {p})

is_runningWhatever(p) == p \in Workers

\* proc.is_running(): true while the pid is in the process table, a zombie
\* included; false once the process has been reaped.
is_running(p) == PidExists(p)

StopExperiment(id) ==
    /\ ui.pc = "idle"
    /\ LockFree
    /\ id \in DOMAIN store \cup {UnknownId}
    /\ IF ~StopApplies(id)
       THEN /\ ui' = [IdleUi EXCEPT !.id = id, !.ret = "False"]
            /\ Event(1)
            /\ UNCHANGED <<lock, proc, stopReq, signals>>
       ELSE LET exp_data == store[id]
                found == processes_to_kill(exp_data)
            IN /\ lock' = "ui"
               /\ stopReq' = stopReq \cup {id}
               /\ IF found = {}
                  THEN /\ ui' = [IdleUi EXCEPT !.pc = "update", !.id = id,
                                    !.exp_data = exp_data,
                                    !.data = StopNoProcessRecord(exp_data),
                                    !.next = "return_false"]
                       /\ Event(1)
                       /\ UNCHANGED <<proc, signals>>
                  ELSE \E delivered \in SUBSET found :
                       /\ Event(1 + Cardinality(found \ delivered))
                       /\ ui' = IF delivered # {}
                                THEN [IdleUi EXCEPT !.pc = "stop_sleep", !.id = id,
                                         !.exp_data = exp_data, !.found = found,
                                         !.delivered = delivered, !.success = TRUE]
                                ELSE [IdleUi EXCEPT !.pc = "update", !.id = id,
                                         !.exp_data = exp_data,
                                         !.data = StopRecord(exp_data,
                                                     TerminateErrors(found)),
                                         !.next = "return_false"]
                       /\ signals' = signals \cup
                                         {<<"ui", p, "terminate">> : p \in delivered}
                       /\ proc' = [p \in Workers |->
                                      IF p \in delivered /\ proc[p].st = "alive"
                                      THEN [proc[p] EXCEPT !.sig = "terminate"]
                                      ELSE proc[p]]
    /\ UNCHANGED <<cli, now, store, file, w, root, folders, writeFailed, failedMoves>>

\* After time.sleep(2), taken only when a terminate was delivered: kill is
\* sent to every located process that is_running(); it ends a live process the
\* caller may signal and raises (swallowed) for the others. Then the 'stopped'
\* record is handed to update_experiment_state, the lock still held.
StopKill ==
    /\ ui.pc = "stop_sleep"
    /\ LET running == {p \in ui.found : is_running(p)}
       IN /\ signals' = signals \cup {<<"ui", p, "kill">> : p \in running}
          /\ proc' = [p \in Workers |->
                         IF p \in running \cap ui.delivered /\ proc[p].st = "alive"
                         THEN [proc[p] EXCEPT !.st = "zombie", !.rc = -9]
                         ELSE proc[p]]
    /\ ui' = [ui EXCEPT !.pc = "update", !.found = {}, !.delivered = {},
                 !.data = StopRecord(ui.exp_data,
                                     TerminateErrors(ui.found \ ui.delivered)),
                 !.next = IF ui.success THEN "return_true" ELSE "return_false"]
    /\ UNCHANGED <<cli, now, store, file, lock, w, root, folders, stopReq, events,
                   writeFailed, failedMoves>>

\* ------------------------------------------------------------ specification
Next ==
    \/ Tick
    \/ update_experiment_state
    \/ \E tmpl \in Templates : RunButton(tmpl)
    \/ \E id \in ExperimentIds \cup {UnknownId} : StopExperiment(id)
    \/ StopKill
    \/ \E k \in Workers : W_Setup(k)
    \/ \E k \in Workers : W_Poll(k)
    \/ \E k \in Workers : W_Tick(k)
    \/ \E k \in Workers : EngineWrite(k)
    \/ \E k \in Workers : EngineExit(k)

Spec == Init /\ [][Next]_vars

\* Every thread that can take a step eventually takes one.
Fairness ==
    /\ WF_vars(update_experiment_state)
    /\ WF_vars(StopKill)
    /\ \A k \in Workers : WF_vars(W_Setup(k)) /\ WF_vars(W_Poll(k)) /\ WF_vars(W_Tick(k))

FairSpec == Spec /\ Fairness

\* ------------------------------------------------------- run_experiment.py
\* One execution of the script: main, run_experiment, run_experiment_via_cli.
\* sys.argv is the script's name followed by up to MaxArgs arguments.
MaxArgs == 3

CliTokens == {"t.xlsx", "missing.xlsx", "test", "full", "FULL", "bogus",
              "--verbose", "-v"}
CliArgvs ==
    {<<"run_experiment.py">> \o a : a \in UNION {[1..n -> CliTokens] : n \in 0..MaxArgs}}

\* x in list
Elem(x, q) == \E i \in 1..Len(q) : q[i] = x

\* list.remove(x), for a list that holds x: the first occurrence goes
RECURSIVE ListRemove(_, _)
ListRemove(q, x) ==
    IF q = <<>> THEN <<>>
    ELSE IF Head(q) = x THEN Tail(q)
    ELSE <<Head(q)>> \o ListRemove(Tail(q), x)

\* str.lower()
StrLower(s) == IF s = "FULL" THEN "full" ELSE s

\* os.path.exists(excel_file_path)
FileExists(f) == f = "t.xlsx"

\* main: verbose
CliVerbose(argv) == Elem("--verbose", argv) \/ Elem("-v", argv)

\* main: sys.argv.remove('--verbose') raises ValueError when only -v is given
ArgvRaises(argv) == CliVerbose(argv) /\ ~Elem("--verbose", argv)

\* main: sys.argv after the removal of the flags
ArgvAfterFlags(argv) ==
    IF ~CliVerbose(argv) THEN argv
    ELSE LET a == ListRemove(argv, "--verbose")
         IN IF Elem("-v", a) THEN ListRemove(a, "-v") ELSE a

\* main: mode
ModeOf(argv) ==
    LET mode == IF Len(argv) > 2 /\ argv[3] \notin {"--verbose", "-v"}
                THEN StrLower(argv[3]) ELSE "test"
    IN IF mode \notin {"test", "full"} THEN "test" ELSE mode

CliStart(argv, has_package) ==
    [pc |-> "main", argv |-> argv, has_package |-> has_package, file |-> "",
     mode |-> "", calls |-> 0, engine |-> "none", waited |-> "no", rc |-> 0,
     ret |-> "none", code |-> 0]

CliInit ==
    /\ AppInit
    /\ cli \in {CliStart(argv, hp) : argv \in CliArgvs, hp \in BOOLEAN}

appVars == <<now, store, file, lock, ui, w, proc, root, folders, stopReq, signals,
             writeFailed, failedMoves, events>>

\* main up to the call of run_experiment; an uncaught exception ends the
\* interpreter with exit code 1, as does the usage message
CliMain ==
    /\ cli.pc = "main"
    /\ LET argv == ArgvAfterFlags(cli.argv)
       IN cli' = IF ArgvRaises(cli.argv) \/ Len(argv) < 2
                 THEN [cli EXCEPT !.pc = "exit", !.code = 1]
                 ELSE [cli EXCEPT !.pc = "run_experiment", !.file = argv[2],
                                  !.mode = ModeOf(argv)]
    /\ UNCHANGED appVars

\* run_experiment: the file test, then the call of run_experiment_via_cli
CliRunExperiment ==
    /\ cli.pc = "run_experiment"
    /\ cli' = IF ~FileExists(cli.file)
              THEN [cli EXCEPT !.pc = "sys_exit", !.ret = "False"]
              ELSE [cli EXCEPT !.pc = "spawn", !.calls = 1]
    /\ UNCHANGED appVars

\* run_experiment_via_cli: subprocess.Popen and the write of the mode
CliSpawnOutcomes == {"ok", "not_found", "not_permitted", "broken_pipe"}

CliSpawn ==
    /\ cli.pc = "spawn"
    /\ \E outcome \in CliSpawnOutcomes :
        cli' = CASE outcome = "ok" ->
                      [cli EXCEPT !.pc = "wait", !.engine = "running", !.waited = "no"]
                 [] outcome = "broken_pipe" ->
                      [cli EXCEPT !.pc = "returned", !.engine = "running",
                                  !.waited = "no", !.ret = "False"]
                 [] OTHER ->
                      [cli EXCEPT !.pc = "returned", !.engine = "none",
                                  !.waited = "no", !.ret = "False"]
    /\ UNCHANGED appVars

\* process.wait(timeout=3600)
CliExitCodes == {0, 1}

CliWait ==
    /\ cli.pc = "wait"
    /\ \/ \E rc \in CliExitCodes :
            cli' = [cli EXCEPT !.pc = "report", !.engine = "exited",
                               !.waited = "exited", !.rc = rc]
       \/ cli' = [cli EXCEPT !.pc = "kill", !.waited = "timeout"]
    /\ UNCHANGED appVars

\* after the wait: the output is printed and, for return code 0, the result
\* files are listed (glob, then stat of each); an exception in that is caught
\* by except Exception, which returns False
CliReportOutcomes == {"ok", "failed"}

CliReport ==
    /\ cli.pc = "report"
    /\ \E outcome \in CliReportOutcomes :
        cli' = [cli EXCEPT !.pc = "returned",
                           !.ret = IF outcome = "ok" /\ cli.rc = 0 THEN "True"
                                   ELSE "False"]
    /\ UNCHANGED appVars

\* except subprocess.TimeoutExpired: process.kill(), process.wait(timeout=5);
\* a second timeout is raised inside the handler and leaves the function
CliKillOutcomes == {"ok", "timeout"}

CliKill ==
    /\ cli.pc = "kill"
    /\ \E outcome \in CliKillOutcomes :
        cli' = [cli EXCEPT !.pc = "returned", !.engine = "killed",
                           !.ret = IF outcome = "ok" THEN "False" ELSE "raised"]
    /\ UNCHANGED appVars

\* run_experiment after the call: with HAS_PACKAGE an exception of the first
\* call is caught and the CLI is called again; any other exception reaches
\* the interpreter, which exits with code 1
CliReturn ==
    /\ cli.pc = "returned"
    /\ cli' = IF cli.ret # "raised" THEN [cli EXCEPT !.pc = "sys_exit"]
              ELSE IF cli.has_package /\ cli.calls = 1
                   THEN [cli EXCEPT !.pc = "spawn", !.calls = 2, !.ret = "none"]
                   ELSE [cli EXCEPT !.pc = "exit", !.code = 1]
    /\ UNCHANGED appVars

\* sys.exit(0 if success else 1)
CliExit ==
    /\ cli.pc = "sys_exit"
    /\ cli' = [cli EXCEPT !.pc = "exit", !.code = IF cli.ret = "True" THEN 0 ELSE 1]
    /\ UNCHANGED appVars

CliNext ==
    \/ CliMain
    \/ CliRunExperiment
    \/ CliSpawn
    \/ CliWait
    \/ CliReport
    \/ CliKill
    \/ CliReturn
    \/ CliExit

CliSpec == CliInit /\ [][CliNext]_vars

\* ------------------------------------------------------------------ claims
\* the record a worker hands to update_experiment_state as its last one
FinalPending(k) == w[k].pc = "update" /\ w[k].next = "done"

\* C1: once a terminal status (completed, failed, stopped, error) is stored
\* for an identifier, no later write stores 'starting' or 'running' for it.
C1_NoStatusAfterTerminal ==
    [][\A id \in DOMAIN store :
          Status(store[id]) \in Terminal =>
              Status(store'[id]) \notin {"starting", "running"}]_vars

\* C3: a run on which no stop was requested and whose process was spawned and
\* has been seen to exit with code c gets a final record with return_code c
\* and status 'completed' when c = 0, 'failed' otherwise, whatever the number
\* of poll ticks before.
C3_FinalRecordFollowsReturnCode ==
    \A k \in Workers :
        (FinalPending(k) /\ proc[k].st = "reaped" /\ w[k].eid \notin stopReq) =>
            /\ Get(w[k].data, "status") =
                  PStr(IF proc[k].rc = 0 THEN "completed" ELSE "failed")
            /\ Get(w[k].data, "return_code") = PInt(proc[k].rc)

\* C4: a call of stop_experiment on a 'running' record for which no process
\* is found returns False, and at its return the record has status 'stopped'
\* and error "No process found to stop".
C4_NoProcessStopReturnsFalse ==
    \A id \in ExperimentIds :
        (ui.pc = "update" /\ ui.id = id /\ ui.exp_data # NoData
            /\ ui.data = StopNoProcessRecord(ui.exp_data))
        ~> (/\ ui.pc = "idle" /\ ui.ret = "False"
            /\ id \in DOMAIN store
            /\ Get(store[id], "status") = PStr("stopped")
            /\ Get(store[id], "error") = PStr("No process found to stop"))

\* C5: a call of stop_experiment on a 'running' record never blocks forever on
\* the store lock: it is never waiting for the lock while holding it itself.
C5_StopNeverWaitsForItsOwnLock == ~(ui.pc = "update" /\ lock = "ui")

Produced(k) ==
    {f \in EngineNames(k) : f \in root \/ \E d \in DOMAIN folders : f \in folders[d]}

\* one run only, and its final record is stored
SingleRunDone == w[1].pc = "done" /\ w[2].pc = "unstarted"

\* C7 as stated: after a single run's final record, exactly the files the
\* engine created are in the run's folder and the earlier files are still in
\* the results root.
C7_ExactlyTheNewFilesMoved ==
    SingleRunDone =>
        /\ folders[w[1].folder] = Produced(1)
        /\ OldNames \subseteq root

\* C7, amended: after a single run's final record, the run's folder holds
\* exactly the created files whose move succeeded, a created file whose move
\* failed is still in the results root, and so are the earlier files.
C7_MovedUnlessMoveFailed ==
    SingleRunDone =>
        /\ folders[w[1].folder] = Produced(1) \ failedMoves
        /\ Produced(1) \cap failedMoves \subseteq root
        /\ OldNames \subseteq root

\* a single run has ended with the created file in its folder, the earlier
\* file in the root
C7_Witness ==
    /\ SingleRunDone
    /\ Produced(1) # {}
    /\ folders[w[1].folder] = Produced(1)
    /\ OldNames \subseteq root

\* C8: while every write of the file has succeeded, loading the file into an
\* empty mapping yields the store: the same identifiers, each with the record
\* last written for it.
C8_ReloadYieldsLastWritten ==
    ~writeFailed => load_experiments_state(file, EmptyState) = store

\* two runs' records, one of them final, written and reloaded
C8_Witness ==
    /\ ~writeFailed
    /\ Cardinality(DOMAIN store) = 2
    /\ \E id \in DOMAIN store : Status(store[id]) \in {"completed", "failed"}
    /\ load_experiments_state(file, EmptyState) = store

\* C9: two runs started from the UI never share an identifier.
C9_IdentifiersNeverShared ==
    \A j, k \in Workers :
        (j # k /\ w[j].pc # "unstarted" /\ w[k].pc # "unstarted") => w[j].eid # w[k].eid

\* C10: every stored record with status 'running' has as process_pid the pid
\* of the process spawned by a worker of that run.
C10_RunningRecordHasSpawnedPid ==
    \A id \in DOMAIN store :
        Status(store[id]) = "running" =>
            \E k \in Workers :
                /\ w[k].eid = id
                /\ proc[k].st # "none"
                /\ Get(store[id], "process_pid") = PInt(k)

\* a tick's record is stored
C10_Witness ==
    \E id \in DOMAIN store :
        /\ Status(store[id]) = "running"
        /\ Get(store[id], "process_info") # None
        /\ Get(store[id], "process_pid") \in {PInt(k) : k \in Workers}

\* C11: once a record with a terminal status is stored for an identifier, no
\* later step changes any field of that record.
C11_TerminalRecordImmutable ==
    [][\A id \in DOMAIN store :
          Status(store[id]) \in Terminal => store'[id] = store[id]]_vars

\* C12: no failure escapes run_experiment_async: the worker thread never ends
\* with an uncaught exception.
C12_NoFailureEscapesWorker == \A k \in Workers : w[k].pc # "crashed"

\* C13: a worker whose spawn has failed (no process exists for it) is only
\* ever about to write an 'error' record as its last one, never polls or
\* ticks (so writes no 'running' record), and its write stores a record with
\* status 'error', a non-null error message and process_pid null, after
\* which the thread has ended normally.
C13_SpawnFailureStoresError ==
    [][\A k \in Workers :
          proc'[k].st = "none" =>
              /\ w'[k].pc \in {"unstarted", "setup", "crashed", "update", "done"}
              /\ w'[k].pc = "update" =>
                    w'[k].next = "done" /\ Status(w'[k].data) = "error"
              /\ (w[k].pc = "update" /\ w'[k].pc # "update") =>
                    /\ w'[k].pc = "done"
                    /\ Status(store'[w[k].eid]) = "error"
                    /\ Get(store'[w[k].eid], "error")[1] = "str"
                    /\ Get(store'[w[k].eid], "process_pid") = None]_vars

\* a worker whose spawn failed has ended and its 'error' record is stored
C13_Witness ==
    \E k \in Workers :
        /\ proc[k].st = "none" /\ w[k].pc = "done"
        /\ w[k].eid \in DOMAIN store
        /\ Status(store[w[k].eid]) = "error"
        /\ Get(store[w[k].eid], "error") = PStr("spawn failed")
        /\ Get(store[w[k].eid], "process_pid") = None

\* the engine process of worker k has exited, or its spawn has failed
ProcessOver(k) ==
    \/ proc[k].st \in {"zombie", "reaped"}
    \/ proc[k].st = "none" /\ w[k].pc \in {"update", "done"}

\* C14: under fair scheduling of the threads, once a run's engine process has
\* exited (by itself or stopped) or its spawn has failed, the run's record
\* eventually has a terminal status.
C14_EveryRunReachesTerminal ==
    \A k \in Workers :
        ProcessOver(k) ~>
            (w[k].eid \in DOMAIN store /\ Status(store[w[k].eid]) \in Terminal)

\* C15: run_experiment_via_cli returns True exactly when the engine exited
\* with return code 0 within the wait; after a timeout the engine is killed
\* and the call returns False; a failed spawn returns False; main exits with
\* 0 when the run returned True and with 1 otherwise; the mode is 'test'
\* unless a valid mode argument is given.
C15_CliResultFollowsReturnCode ==
    /\ (cli.pc = "returned" /\ cli.calls > 0) =>
          /\ cli.ret \in {"True", "False"}
          /\ cli.ret = "True" <=> (cli.waited = "exited" /\ cli.rc = 0)
          /\ cli.waited = "timeout" => cli.engine = "killed"
    /\ cli.pc = "exit" => (cli.code = 0 <=> cli.ret = "True")
    /\ cli.pc = "exit" => cli.code \in {0, 1}
    /\ cli.pc \in {"spawn", "wait", "report", "kill", "returned", "sys_exit"} =>
          /\ cli.mode \in {"test", "full"}
          /\ cli.mode = "full" => (Elem("full", cli.argv) \/ Elem("FULL", cli.argv))

\* C17: a stop request is cooperative: every termination signal sent to an
\* engine process is sent by a worker thread, none by stop_experiment.
C17_OnlyWorkersSignal == \A s \in signals : s[1] = "worker"

\* C18: once a worker has written the record of its run, only a worker of
\* that run changes the record: no step of the script thread (handler,
\* stop_experiment) replaces a record written by a worker.
C18_OnlyWorkerWritesItsRecord ==
    [][\A id \in DOMAIN store :
          (Status(store[id]) # "starting" /\ store'[id] # store[id]) =>
              \E k \in Workers : w[k].eid = id /\ w'[k] # w[k] /\ ui' = ui]_vars

\* C19: for every way a spawned run ends, relocation has run exactly once
\* when the worker is about to store its last record and after it has.
C19_RelocationExactlyOnce ==
    \A k \in Workers :
        (proc[k].st # "none" /\ (FinalPending(k) \/ w[k].pc = "done")) =>
            w[k].relocations = 1

\* C20: the processes a stop request for run R signals are R's recorded
\* process or engine processes started with R's template, never the engine
\* of a run with another template.
C20_StopSignalsOwnProcessesOnly ==
    ui.pc = "stop_sleep" =>
        \A p \in ui.found :
            \/ Get(ui.exp_data, "process_pid") = PInt(p)
            \/ proc[p].tmpl = ui.id[1]

\* C21: stop_experiment signals gracefully first and forcibly second. A kill
\* is sent only by the step that follows the grace wait, only after a
\* terminate was delivered to every process that accepted one and to at least
\* one, and only to a located process that is still in the process table; the
\* step that sends the terminate signals sends no kill.
C21_GracefulBeforeForced ==
    [][LET kills == {p \in Workers : <<"ui", p, "kill">> \in signals' \ signals}
           terms == {p \in Workers : <<"ui", p, "terminate">> \in signals' \ signals}
       IN /\ kills # {} =>
               /\ ui.pc = "stop_sleep"
               /\ ui.success
               /\ ui.delivered # {}
               /\ \A q \in ui.delivered : <<"ui", q, "terminate">> \in signals
               /\ \A p \in kills : p \in ui.found /\ PidExists(p)
          /\ terms # {} => ui.pc = "idle" /\ kills = {}
          /\ (ui.pc = "idle" /\ ui'.pc = "update") => kills = {}]_vars

\* the grace wait is over and a kill has followed a delivered terminate
C21_Witness ==
    \E p \in Workers :
        /\ <<"ui", p, "kill">> \in signals
        /\ <<"ui", p, "terminate">> \in signals

\* C22: a call of stop_experiment on a 'running' record for which a process
\* was located returns True when a terminate was delivered and False when
\* every delivery failed, and at its return the record has status 'stopped',
\* process_pid None and the delivery errors in its error field.
C22_StopReturnsWhetherDelivered ==
    \A id \in ExperimentIds :
        /\ (ui.pc = "stop_sleep" /\ ui.id = id)
           ~> (/\ ui.pc = "idle" /\ ui.ret = "True"
               /\ id \in DOMAIN store
               /\ Get(store[id], "status") = PStr("stopped")
               /\ Get(store[id], "process_pid") = None)
        /\ (ui.pc = "update" /\ ui.id = id /\ ui.next = "return_false"
               /\ Get(ui.data, "error") # PStr("No process found to stop"))
           ~> (/\ ui.pc = "idle" /\ ui.ret = "False"
               /\ id \in DOMAIN store
               /\ Get(store[id], "status") = PStr("stopped")
               /\ Get(store[id], "process_pid") = None
               /\ Get(store[id], "error") \in {PStr(TerminateErrors(F)) :
                                                 F \in SUBSET Workers \ {{}}})

\* C23: failures of the store's file I/O are absorbed. Every call of
\* update_experiment_state, whether its file write succeeds or fails, ends
\* with the new record in the in-memory mapping, which get_experiment_state
\* reads; a failed write leaves the file as it was or unreadable; every
\* successful write leaves on file the dump of the whole in-memory mapping,
\* records of earlier failed writes included; loading an unreadable file
\* gives the empty mapping.
C23_StoreFailuresAbsorbed ==
    [][/\ \A k \in Workers :
            /\ (w[k].pc = "update" /\ w'[k].pc # "update") =>
                    /\ w[k].eid \in DOMAIN store'
                    /\ store'[w[k].eid] = w[k].data
            /\ (w[k].pc = "tick" /\ w'[k].pc # "tick") =>
                    /\ w[k].eid \in DOMAIN store'
                    /\ Status(store'[w[k].eid]) \in {"running", "error"}
                    /\ Get(store'[w[k].eid], "elapsed") # None
       /\ (ui.pc = "update" /\ ui'.pc # "update") =>
               /\ ui.id \in DOMAIN store'
               /\ store'[ui.id] = ui.data
       /\ (store' # store \/ file' # file) =>
               IF events' = events
               THEN file' = save_experiments_state(store')
               ELSE writeFailed' /\ file' \in {file, FileCorrupt}
       /\ load_experiments_state(FileCorrupt, store') = EmptyState]_vars

\* after a failed write, a later write has put the whole mapping on file
C23_Witness ==
    /\ writeFailed
    /\ store # EmptyState
    /\ file = save_experiments_state(store)

\* C24 (as stated): the store's mutations are serialized by the lock, and
\* after every completed update the file holds the in-memory mapping.
C24_FileEqualsMemoryAfterUpdate ==
    [][/\ lock = "ui" => (store' = store /\ file' = file)
       /\ (store' # store \/ file' # file) => file' = save_experiments_state(store')]_vars

\* C24 (amended): while a thread holds the lock no other update changes the
\* mapping or the file; an update changes the record of one identifier and
\* leaves every other record as it was; after an update whose file write
\* succeeded the file holds the dump of the in-memory mapping of that moment.
C24_UpdatesSerializedByLock ==
    [][/\ lock = "ui" => (store' = store /\ file' = file)
       /\ (store' # store \/ file' # file) =>
               /\ DOMAIN store \subseteq DOMAIN store'
               /\ Cardinality({id \in DOMAIN store' :
                                  id \notin DOMAIN store \/ store'[id] # store[id]}) <= 1
               /\ events' = events => file' = save_experiments_state(store')]_vars

\* two runs have their records in the mapping and on file, and a worker's
\* update waits while the lock is held
C24_Witness ==
    /\ Cardinality(DOMAIN store) = 2
    /\ file = save_experiments_state(store)
    /\ lock = "ui"
    /\ \E k \in Workers : w[k].pc \in {"update", "tick"}

\* C25: a poll tick of the worker on a run whose record is 'running' leaves
\* the status 'running' and keeps the record's start_time, process_pid,
\* template and result_folder.
C25_TickKeepsIdentityFields ==
    [][\A k \in Workers :
          (/\ w[k].pc = "tick" /\ w'[k].pc = "poll"
           /\ w[k].eid \in DOMAIN store
           /\ Status(store[w[k].eid]) = "running")
          => /\ Status(store'[w[k].eid]) = "running"
             /\ \A key \in {"start_time", "process_pid", "template", "result_folder"} :
                    Get(store'[w[k].eid], key) = Get(store[w[k].eid], key)]_vars

\* C26: the first record ever stored under a run identifier has status
\* 'starting', and the handler's 'starting' write finds no record of the
\* worker under that identifier.
C26_StartingStoredFirst ==
    [][/\ \A id \in ExperimentIds :
            (id \notin DOMAIN store /\ id \in DOMAIN store')
                => Status(store'[id]) = "starting"
       /\ (ui.pc = "update" /\ ui.next = "idle" /\ ui'.pc = "idle")
            => ui.id \notin DOMAIN store]_vars

C28_NoLiveProcessBehindTerminalRecord ==
    [][\A k \in Workers :
          (/\ w[k].pc \in {"update", "tick"}
           /\ w'[k].pc = "done"
           /\ proc[k].st # "none")
          => /\ Status(store'[w[k].eid]) \in Terminal
             /\ proc'[k].st # "alive"]_vars

\* C29: relocation attributes files by the time they appear, not by the run
\* that produced them. A run folder never receives a file that was in the
\* results root before any run, and receives only files written by the
\* engine of a started run; which run's engine wrote a file plays no part,
\* and the witness is a state in which a file written by the engine of run A
\* lies in the folder of another run B.
C29_RelocationByAppearanceOnly ==
    \A d \in DOMAIN folders :
        \A f \in folders[d] :
            /\ f \notin OldNames
            /\ \E a \in Workers : f \in EngineNames(a) /\ proc[a].st # "none"
            /\ \E b \in Workers : w[b].folder = d /\ f \notin w[b].before

\* a file produced by run A's engine has been moved into run B's folder
C29_Witness ==
    \E a \in Workers, b \in Workers :
        /\ a # b
        /\ w[a].folder # w[b].folder
        /\ w[b].folder \in DOMAIN folders
        /\ \E f \in EngineNames(a) : f \in folders[w[b].folder]

\* C30: a relocation pass in which a move fails still attempts every new
\* file and is followed by the final record, whose files_moved lists exactly
\* the files that were moved and whose result_files_count is the number of
\* .csv and .json files in the run's folder after the moves.
C30_FailedMoveSkipped ==
    [][\A k \in Workers :
          (/\ w[k].pc = "poll" /\ w'[k].pc = "update"
           /\ events' > events)
          => LET new == NewFiles(w[k].before)
                 moved == new \ root'
                 inFolder == folders'[w[k].folder]
             IN /\ new \subseteq moved \cup failedMoves'
                /\ moved \subseteq inFolder
                /\ Status(w'[k].data) \in {"completed", "failed", "stopped"}
                /\ Get(w'[k].data, "files_moved") = PList(MovedList(moved))
                /\ Get(w'[k].data, "result_files_count")
                      = PInt(Cardinality({f \in inFolder : Recognized(f)}))]_vars

====
